---- MODULE Spec2Model ----
(***************************************************************************)
(* A model of gitversion.py: the version resolver that asks git for a      *)
(* description of HEAD, turns it into a PEP440 version string, and keeps   *)
(* the last version in the cache file RELEASE-VERSION.                     *)
(*                                                                         *)
(* Text is modelled as a sequence of one-character strings, so that        *)
(* strip(), the two regular expressions, "%d" formatting and int() are     *)
(* computed, character by character, the way the code computes them.       *)
(***************************************************************************)
EXTENDS Integers, Sequences, FiniteSets, TLC

(***************************************************************************)
(* Bounds of the model.                                                    *)
(***************************************************************************)
\* The longest commit history the repository is grown to.
MaxCommits == 2

\* The largest "commits since the tag" count a stubbed describe output holds.
MaxStubPost == 12

(***************************************************************************)
(* Characters and text.                                                    *)
(***************************************************************************)
DigitChar == <<"0", "1", "2", "3", "4", "5", "6", "7", "8", "9">>

\* \d of the regular expressions (Python 2 str patterns: ASCII digits).
Digits == {DigitChar[i] : i \in 1..10}

\* [\da-f] of GIT_DESCRIPION_re.
HexChars == Digits \cup {"a", "b", "c", "d", "e", "f"}

\* \s of the regular expressions and the characters str.strip() removes.
Whitespace == {" ", "\n"}

\* The character of s at position p, or "" beyond either end.
At(s, p) == IF p >= 1 /\ p <= Len(s) THEN s[p] ELSE ""

\* The length of the longest run of characters of `set` that starts at p.
RECURSIVE Run(_, _, _)
Run(s, p, set) == IF At(s, p) \in set THEN 1 + Run(s, p + 1, set) ELSE 0

\* The length of the longest run of characters of `set` that ends at p.
RECURSIVE RunBack(_, _, _)
RunBack(s, p, set) == IF At(s, p) \in set THEN 1 + RunBack(s, p - 1, set) ELSE 0

\* str.strip(): leading and trailing whitespace removed.
Strip(s) ==
    LET lead == Run(s, 1, Whitespace)
        trail == RunBack(s, Len(s), Whitespace)
    IN  IF lead = Len(s) THEN << >> ELSE SubSeq(s, lead + 1, Len(s) - trail)

\* "%d" % n, for n >= 0.
RECURSIVE IntToStr(_)
IntToStr(n) ==
    IF n < 10 THEN <<DigitChar[n + 1]>>
    ELSE IntToStr(n \div 10) \o <<DigitChar[(n % 10) + 1]>>

DigitVal(c) == CHOOSE d \in 0..9 : DigitChar[d + 1] = c

\* int(s), for a non-empty string of digits.
RECURSIVE StrToInt(_)
StrToInt(s) ==
    IF Len(s) = 0 THEN 0
    ELSE 10 * StrToInt(SubSeq(s, 1, Len(s) - 1)) + DigitVal(s[Len(s)])

\* ''.join(lines)
RECURSIVE Join(_)
Join(lines) == IF Len(lines) = 0 THEN << >> ELSE Head(lines) \o Join(Tail(lines))

\* Whether every character of s from position p on is whitespace: \s* \Z.
AllWs(s, p) == p + Run(s, p, Whitespace) = Len(s) + 1

(***************************************************************************)
(* GIT_DESCRIPION_re:                                                      *)
(*   \A \s* (?P<release>.*?) (?: -(?P<post>\d+) -g(?:[\da-f]+) )?           *)
(*   (?P<dirty>-dirty)? \s* \Z                                             *)
(***************************************************************************)
\* The optional group -(?P<post>\d+)-g[\da-f]+ tried at position p. Both runs
\* are greedy and what may follow either (a "-", whitespace, the end) is in
\* neither class, so backtracking into them never finds another match.
PostAt(s, p) ==
    LET d == Run(s, p + 1, Digits)
        h == Run(s, p + 3 + d, HexChars)
    IN  IF /\ At(s, p) = "-"
           /\ d >= 1
           /\ At(s, p + 1 + d) = "-"
           /\ At(s, p + 2 + d) = "g"
           /\ h >= 1
        THEN [ok |-> TRUE, digits |-> SubSeq(s, p + 1, p + d), next |-> p + 3 + d + h]
        ELSE [ok |-> FALSE, digits |-> << >>, next |-> p]

\* (?P<dirty>-dirty)? tried at position p.
DirtyAt(s, p) == p + 5 <= Len(s) /\ SubSeq(s, p, p + 5) = <<"-", "d", "i", "r", "t", "y">>

\* What follows the release group, matched from position p to the end. Each
\* optional group is greedy: taken when the rest then matches, dropped otherwise.
\* post is the text of the post group, << >> when the group took no part.
TailAt(s, p) ==
    LET po == PostAt(s, p)
    IN  IF po.ok /\ DirtyAt(s, po.next) /\ AllWs(s, po.next + 6)
        THEN [ok |-> TRUE, post |-> po.digits, dirty |-> TRUE]
        ELSE IF po.ok /\ AllWs(s, po.next)
        THEN [ok |-> TRUE, post |-> po.digits, dirty |-> FALSE]
        ELSE IF DirtyAt(s, p) /\ AllWs(s, p + 6)
        THEN [ok |-> TRUE, post |-> << >>, dirty |-> TRUE]
        ELSE IF AllWs(s, p)
        THEN [ok |-> TRUE, post |-> << >>, dirty |-> FALSE]
        ELSE [ok |-> FALSE, post |-> << >>, dirty |-> FALSE]

\* GIT_DESCRIPION_re.match(s): the leading \s* takes the whole leading run, then
\* the release group, being lazy, is the shortest text without a line break
\* after which the tail matches. (Giving leading whitespace back to the release
\* group finds no match the full run does not find.)
GIT_DESCRIPION_re(s) ==
    LET lead == Run(s, 1, Whitespace)
        ends == {i \in lead..Len(s) :
                    /\ \A k \in (lead + 1)..i : s[k] # "\n"
                    /\ TailAt(s, i + 1).ok}
    IN  IF ends = {} THEN [matched |-> FALSE, release |-> << >>, post |-> << >>,
                           dirty |-> FALSE]
        ELSE LET i == CHOOSE e \in ends : \A o \in ends : e <= o
                 t == TailAt(s, i + 1)
             IN  [matched |-> TRUE, release |-> SubSeq(s, lead + 1, i),
                  post |-> t.post, dirty |-> t.dirty]

(***************************************************************************)
(* RELEASE_VERSION_re: \A\d+(\.\d+)*((?:a|b|c|rc)\d+)?\Z                   *)
(***************************************************************************)
\* The position after (\.\d+)* matched greedily from p.
RECURSIVE DottedEnd(_, _)
DottedEnd(s, p) ==
    LET d == Run(s, p + 1, Digits)
    IN  IF At(s, p) = "." /\ d >= 1 THEN DottedEnd(s, p + 1 + d) ELSE p

\* The position after ((?:a|b|c|rc)\d+)? matched from p (p when it is skipped).
PreEnd(s, p) ==
    LET one == Run(s, p + 1, Digits)
        two == Run(s, p + 2, Digits)
    IN  IF At(s, p) \in {"a", "b", "c"} /\ one >= 1 THEN p + 1 + one
        ELSE IF At(s, p) = "r" /\ At(s, p + 1) = "c" /\ two >= 1 THEN p + 2 + two
        ELSE p

\* RELEASE_VERSION_re without its \Z: a valid release followed by anything.
RELEASE_VERSION_re_unanchored(s) ==
    Run(s, 1, Digits) >= 1

\* RELEASE_VERSION_re.match(s) is not None. \Z matches at the very end only.
RELEASE_VERSION_re(s) ==
    LET d == Run(s, 1, Digits)
    IN  /\ d >= 1
        /\ PreEnd(s, DottedEnd(s, 1 + d)) = Len(s) + 1

(***************************************************************************)
(* The state: the environment gitversion.py runs in, the cache file, and   *)
(* the outcome of the call made last.                                      *)
(***************************************************************************)
VARIABLES
    git_installed,  \* whether the git command is found in PATH
    initialized,    \* whether the working directory is inside a git work tree
    history,        \* the commits of HEAD, oldest first: each its annotated tag or NoTag
    lightweight,    \* whether a non-annotated tag has been put on some commit
    dirty,          \* whether a tracked file has uncommitted modifications
    fault,          \* a condition of the repository or of a git process: see Faults
    stub,           \* a stand-in for git passed as git_cmd, and the description it prints
    cache,          \* the file RELEASE-VERSION of the working directory
    result,         \* the outcome of the call made last, NoCall after any other step
    lastLive        \* the version the last live query gave, while nothing else touched the cache

vars == <<git_installed, initialized, history, lightweight, dirty, fault, stub, cache,
          result, lastLive>>

NoTag == << >>

\* The annotated tags the model's commits are given: two valid releases and one
\* that RELEASE_VERSION_re rejects.
Tags == {<<"1", ".", "0">>, <<"2", "r", "c", "1">>, <<"v", "1">>}

\* "none": nothing is wrong. "corrupt_index": .git/index is damaged, so that
\* describe --dirty dies with git's fatal status 128 while rev-list works.
\* "bad_head": the object HEAD names is missing, and describe and rev-list both
\* die with status 128. "describe_killed", "revlist_killed": that git process is
\* killed by a signal, which Popen reports as a negative return code.
Faults == {"none", "corrupt_index", "bad_head", "describe_killed", "revlist_killed"}

\* No stand-in: git_cmd is 'git'. A stand-in prints text for describe; shaped
\* tells that text is <release>(-<post>-g<hash>)?(-dirty)? of the other fields,
\* post being -1 when that part is left out.
NoStub == [on |-> FALSE, shaped |-> FALSE, release |-> << >>, post |-> -1,
           dirty |-> FALSE, text |-> << >>]

\* VERSION_CACHE as a file: absent, a directory (reading it is an IOError other
\* than ENOENT), or a regular file and its content.
NoFile == [state |-> "absent", content |-> << >>]
Directory == [state |-> "dir", content |-> << >>]
File(content) == [state |-> "file", content |-> content]

\* The environment a git process sees.
Env == [installed |-> git_installed, initialized |-> initialized, history |-> history,
        dirty |-> dirty, fault |-> fault, stub |-> stub]

(***************************************************************************)
(* run_git: one git process, its exit status, its stdout lines, its stderr.*)
(***************************************************************************)
Ok(lines) == [status |-> "ok", returncode |-> 0, output |-> lines, detail |-> ""]
Failed(code, stderr) ==
    [status |-> "GitFailed", returncode |-> code, output |-> << >>, detail |-> stderr]
NotFound == [status |-> "GitNotFound", returncode |-> 0, output |-> << >>, detail |-> ""]

\* The abbreviated object name of the n-th commit, as describe prints it.
Hash(n) == <<"c">> \o IntToStr(n)

\* The index of the newest commit of h that carries an annotated tag, 0 if none.
LastTagged(h) ==
    LET tagged == {i \in 1..Len(h) : h[i] # NoTag}
    IN  IF tagged = {} THEN 0 ELSE CHOOSE i \in tagged : \A j \in tagged : j <= i

\* What `git describe --dirty` prints for a history with an annotated tag.
DescribeText(h, isDirty) ==
    LET t == LastTagged(h)
        ahead == Len(h) - t
    IN  h[t]
        \o (IF ahead > 0 THEN <<"-">> \o IntToStr(ahead) \o <<"-", "g">> \o Hash(Len(h))
            ELSE << >>)
        \o (IF isDirty THEN <<"-", "d", "i", "r", "t", "y">> ELSE << >>)
        \o <<"\n">>

git_rev_parse(e) ==
    IF e.stub.on \/ e.initialized THEN Ok(<< <<"t", "r", "u", "e", "\n">> >>)
    ELSE Failed(128, "fatal: not a git repository")

git_describe(e) ==
    IF e.stub.on THEN Ok(<<e.stub.text>>)
    ELSE IF e.fault = "describe_killed" THEN Failed(-9, "")
    ELSE IF e.fault = "corrupt_index" THEN Failed(128, "fatal: index file corrupt")
    ELSE IF e.fault = "bad_head" THEN Failed(128, "fatal: bad object HEAD")
    ELSE IF LastTagged(e.history) = 0
    THEN Failed(128, "fatal: No names found, cannot describe anything.")
    ELSE Ok(<<DescribeText(e.history, e.dirty)>>)

git_rev_list(e) ==
    IF e.stub.on THEN Ok(<< >>)
    ELSE IF e.fault = "revlist_killed" THEN Failed(-9, "")
    ELSE IF e.fault = "bad_head" THEN Failed(128, "fatal: bad object HEAD")
    ELSE IF Len(e.history) = 0 THEN Failed(128, "fatal: ambiguous argument 'HEAD'")
    ELSE Ok([i \in 1..Len(e.history) |-> Hash(Len(e.history) + 1 - i) \o <<"\n">>])

\* run_git(cmd): GitNotFound when Popen finds no such command, GitFailed with the
\* exit status and stderr when the process exits non-zero, its stdout lines otherwise.
Popen(cmd, e) ==
    CASE cmd = "rev-parse" -> git_rev_parse(e)
      [] cmd = "describe" -> git_describe(e)
      [] cmd = "rev-list" -> git_rev_list(e)

wait(proc) ==
    IF proc.returncode # 0 THEN Failed(proc.returncode, proc.detail)
    ELSE Ok(proc.output)

run_git(cmd, e) ==
    IF ~e.installed /\ ~e.stub.on THEN NotFound ELSE wait(Popen(cmd, e))

(***************************************************************************)
(* Outcomes of a function: a returned string, None, or a raised exception. *)
(***************************************************************************)
Value(v) == [kind |-> "value", value |-> v, returncode |-> 0, cmd |-> "", detail |-> ""]
None == [kind |-> "None", value |-> << >>, returncode |-> 0, cmd |-> "", detail |-> ""]
Raise(exc) == [kind |-> exc, value |-> << >>, returncode |-> 0, cmd |-> "", detail |-> ""]
RaiseGitFailed(c, r) ==
    [kind |-> "GitFailed", value |-> << >>, returncode |-> r.returncode, cmd |-> c,
     detail |-> r.detail]

Exceptions == {"GitFailed", "GitError", "GitNotFound", "RuntimeError", "IOError"}

\* get_number_of_commits_in_head: the number of lines of `git rev-list HEAD`,
\* 0 when it fails with status 128, the failure raised otherwise.
\* get_number_of_commits_in_head raising every failure, status 128 included.
count_lines_raising_128(r) ==
    IF r.status = "ok" THEN [raised |-> FALSE, n |-> Len(r.output), exc |-> None]
    ELSE IF r.status = "GitFailed"
    THEN [raised |-> TRUE, n |-> 0, exc |-> RaiseGitFailed("rev-list", r)]
    ELSE [raised |-> TRUE, n |-> 0, exc |-> Raise("GitNotFound")]

\* The body of get_number_of_commits_in_head, from the outcome of rev-list.
count_lines(r) ==
    IF r.status = "ok" THEN [raised |-> FALSE, n |-> Len(r.output), exc |-> None]
    ELSE IF r.status = "GitFailed" /\ r.returncode = 128
    THEN [raised |-> FALSE, n |-> 0, exc |-> None]
    ELSE IF r.status = "GitFailed"
    THEN [raised |-> TRUE, n |-> 0, exc |-> RaiseGitFailed("rev-list", r)]
    ELSE [raised |-> TRUE, n |-> 0, exc |-> Raise("GitNotFound")]

get_number_of_commits_in_head(e) == count_lines(run_git("rev-list", e))

DotPost == <<".", "p", "o", "s", "t">>
DotDev == <<".", "d", "e", "v">>

\* format_version numbering a dirty tree .post<post>, not .post<post+1>.
format_version_same_post(release, post, isDirty) ==
    IF isDirty THEN release \o DotPost \o IntToStr(post) \o DotDev \o <<"0">>
    ELSE IF post # 0 THEN release \o DotPost \o IntToStr(post)
    ELSE release

\* The end of get_git_version: the version for a release, the commits since it
\* (0 when describe gave none) and the dirty marker.
format_version(release, post, isDirty) ==
    IF isDirty THEN release \o DotPost \o IntToStr(post + 1) \o DotDev \o <<"0">>
    ELSE IF post # 0 THEN release \o DotPost \o IntToStr(post)
    ELSE release

\* version_of_match without the check of the release against RELEASE_VERSION_re.
version_of_match_unvalidated(m) ==
    IF ~m.matched THEN Raise("GitError")
    ELSE Value(format_version(m.release,
                              IF m.post # << >> THEN StrToInt(m.post) ELSE 0,
                              m.dirty))

\* get_git_version, from the match m of GIT_DESCRIPION_re on describe's output:
\* GitError when there is no match or the release is not a valid one.
version_of_match(m) ==
    IF ~m.matched THEN Raise("GitError")
    ELSE IF ~RELEASE_VERSION_re(m.release) THEN Raise("GitError")
    ELSE Value(format_version(m.release,
                              IF m.post # << >> THEN StrToInt(m.post) ELSE 0,
                              m.dirty))

\* get_git_version, after describe succeeded with these stdout lines.
parse_description(lines) == version_of_match(GIT_DESCRIPION_re(Strip(Join(lines))))

\* get_git_version, when describe failed with status 128: '0.dev%d' of the
\* commit count, or what counting raised.
untagged_version(count) ==
    IF count.raised THEN count.exc
    ELSE Value(<<"0">> \o DotDev \o IntToStr(count.n))

\* version_of_describe catching GitFailed only, not GitError, around rev-parse:
\* a git that is not found is raised.
version_of_describe_narrow_except(inside, described, e) ==
    IF inside.status = "GitNotFound" THEN Raise("GitNotFound")
    ELSE IF inside.status # "ok" THEN None
    ELSE IF described.status = "GitFailed" /\ described.returncode # 128
    THEN RaiseGitFailed("describe", described)
    ELSE IF described.status = "GitFailed"
    THEN untagged_version(get_number_of_commits_in_head(e))
    ELSE parse_description(described.output)

\* get_git_version, from the outcomes of rev-parse and of describe.
version_of_describe(inside, described, e) ==
    IF inside.status # "ok" THEN None
    ELSE IF described.status = "GitFailed" /\ described.returncode # 128
    THEN RaiseGitFailed("describe", described)
    ELSE IF described.status = "GitFailed"
    THEN untagged_version(get_number_of_commits_in_head(e))
    ELSE IF described.status = "GitNotFound" THEN Raise("GitNotFound")
    ELSE parse_description(described.output)

get_git_version(e) ==
    version_of_describe(run_git("rev-parse", e), run_git("describe", e), e)

\* get_cached_version: the stripped content of the cache file, None when there
\* is no such file, IOError for any other failure to read it.
get_cached_version(c) ==
    IF c.state = "absent" THEN None
    ELSE IF c.state = "dir" THEN Raise("IOError")
    ELSE Value(Strip(c.content))

\* set_cached_version: the cache file overwritten with the version and a newline.
set_cached_version(version) == File(version \o <<"\n">>)

\* resolve writing the cache whenever a live version was computed.
resolve_always_writes(c, cached_version, git_version) ==
    IF git_version.kind \in Exceptions
    THEN [outcome |-> git_version, cache |-> c, wrote |-> FALSE]
    ELSE IF git_version.kind = "None"
    THEN IF cached_version.kind = "None"
         THEN [outcome |-> Raise("RuntimeError"), cache |-> c, wrote |-> FALSE]
         ELSE [outcome |-> cached_version, cache |-> c, wrote |-> FALSE]
    ELSE [outcome |-> git_version, cache |-> set_cached_version(git_version.value),
          wrote |-> TRUE]

\* resolve never updating the cache.
resolve_never_writes(c, cached_version, git_version) ==
    IF git_version.kind \in Exceptions
    THEN [outcome |-> git_version, cache |-> c, wrote |-> FALSE]
    ELSE IF git_version.kind = "None"
    THEN IF cached_version.kind = "None"
         THEN [outcome |-> Raise("RuntimeError"), cache |-> c, wrote |-> FALSE]
         ELSE [outcome |-> cached_version, cache |-> c, wrote |-> FALSE]
    ELSE [outcome |-> git_version, cache |-> c, wrote |-> FALSE]

\* get_version, from the outcome of reading the cache and that of the live
\* query: what it returns or raises, the cache file it leaves, and whether it
\* wrote the file.
resolve(c, cached_version, git_version) ==
    IF git_version.kind \in Exceptions
    THEN [outcome |-> git_version, cache |-> c, wrote |-> FALSE]
    ELSE IF git_version.kind = "None"
    THEN IF cached_version.kind = "None"
         THEN [outcome |-> Raise("RuntimeError"), cache |-> c, wrote |-> FALSE]
         ELSE [outcome |-> cached_version, cache |-> c, wrote |-> FALSE]
    ELSE IF cached_version # git_version
    THEN [outcome |-> git_version, cache |-> set_cached_version(git_version.value),
          wrote |-> TRUE]
    ELSE [outcome |-> git_version, cache |-> c, wrote |-> FALSE]

\* get_version: the cache is read first, and a failure to read it is raised
\* before git is asked anything. live is what the live query gave.
get_version_of(c, cached_version, git_version) ==
    IF cached_version.kind \in Exceptions
    THEN [call |-> [outcome |-> cached_version, cache |-> c, wrote |-> FALSE],
          live |-> None]
    ELSE [call |-> resolve(c, cached_version, git_version), live |-> git_version]

get_version(c, e) == get_version_of(c, get_cached_version(c), get_git_version(e))

(***************************************************************************)
(* The calls, and the steps of the environment between them.               *)
(***************************************************************************)
NoCall == [op |-> "none", dir |-> "", outcome |-> None, live |-> None, wrote |-> FALSE]

NoLive == [valid |-> FALSE, value |-> << >>]

\* What a user, or an unpacked sdist, may leave in RELEASE-VERSION: a version
\* with its newline, a version padded with blanks, a file holding a line
\* break only, an empty file.
ExternalContents ==
    {<<"4", "2", "\n">>, <<" ", "4", "2", " ", "\n">>, <<"\n">>, << >>}

\* The directories a call is made from: the top of the work tree, and a
\* subdirectory of it (git finds the repository from either).
Dirs == {"top", "subdir"}

Init ==
    /\ git_installed = TRUE
    /\ initialized = FALSE
    /\ history = << >>
    /\ lightweight = FALSE
    /\ dirty = FALSE
    /\ fault = "none"
    /\ stub = NoStub
    /\ cache = NoFile
    /\ result = NoCall
    /\ lastLive = NoLive

\* A step of the environment: no call is outstanding after it.
EnvStep == result' = NoCall /\ stub' = stub

\* git init
GitInit ==
    /\ git_installed /\ ~initialized
    /\ initialized' = TRUE
    /\ EnvStep
    /\ UNCHANGED <<git_installed, history, lightweight, dirty, fault, cache, lastLive>>

\* The tests' make_commit: the tracked file is changed and committed, and the
\* new commit is given an annotated tag when one is named.
MakeCommit(tag) ==
    /\ git_installed /\ initialized /\ fault = "none"
    /\ Len(history) < MaxCommits
    /\ history' = Append(history, tag)
    /\ dirty' = FALSE
    /\ EnvStep
    /\ UNCHANGED <<git_installed, initialized, lightweight, fault, cache, lastLive>>

\* The tests' make_tag: git tag -a on HEAD.
MakeTag(tag) ==
    /\ git_installed /\ initialized /\ fault = "none"
    /\ Len(history) >= 1 /\ history[Len(history)] = NoTag
    /\ history' = [history EXCEPT ![Len(history)] = tag]
    /\ EnvStep
    /\ UNCHANGED <<git_installed, initialized, lightweight, dirty, fault, cache, lastLive>>

\* git tag <name>, without -a: a non-annotated tag, which describe passes over.
MakeLightweightTag ==
    /\ git_installed /\ initialized /\ fault = "none"
    /\ Len(history) >= 1 /\ ~lightweight
    /\ lightweight' = TRUE
    /\ EnvStep
    /\ UNCHANGED <<git_installed, initialized, history, dirty, fault, cache, lastLive>>

\* The tests' touch: the tracked file is modified and not committed.
Touch ==
    /\ initialized /\ Len(history) >= 1 /\ ~dirty
    /\ dirty' = TRUE
    /\ EnvStep
    /\ UNCHANGED <<git_installed, initialized, history, lightweight, fault, cache, lastLive>>

\* The source tree is exported (an unpacked sdist): the files, RELEASE-VERSION
\* among them, without the repository.
ExportSdist ==
    /\ initialized
    /\ initialized' = FALSE
    /\ history' = << >>
    /\ lightweight' = FALSE
    /\ dirty' = FALSE
    /\ fault' = "none"
    /\ EnvStep
    /\ UNCHANGED <<git_installed, cache, lastLive>>

\* git leaves or enters PATH.
GitUninstall ==
    /\ git_installed
    /\ git_installed' = FALSE
    /\ EnvStep
    /\ UNCHANGED <<initialized, history, lightweight, dirty, fault, cache, lastLive>>

GitInstall ==
    /\ ~git_installed
    /\ git_installed' = TRUE
    /\ EnvStep
    /\ UNCHANGED <<initialized, history, lightweight, dirty, fault, cache, lastLive>>

\* Something goes wrong with the repository or a git process, or is put right.
Break(f) ==
    /\ initialized /\ fault = "none" /\ f # "none"
    /\ fault' = f
    /\ EnvStep
    /\ UNCHANGED <<git_installed, initialized, history, lightweight, dirty, cache, lastLive>>

Repair ==
    /\ fault # "none"
    /\ fault' = "none"
    /\ EnvStep
    /\ UNCHANGED <<git_installed, initialized, history, lightweight, dirty, cache, lastLive>>

\* RELEASE-VERSION is written, removed or replaced by a directory from outside.
WriteCacheFile(content) ==
    /\ cache # File(content)
    /\ cache' = File(content)
    /\ lastLive' = NoLive
    /\ EnvStep
    /\ UNCHANGED <<git_installed, initialized, history, lightweight, dirty, fault>>

RemoveCacheFile ==
    /\ cache # NoFile
    /\ cache' = NoFile
    /\ lastLive' = NoLive
    /\ EnvStep
    /\ UNCHANGED <<git_installed, initialized, history, lightweight, dirty, fault>>

MkdirCache ==
    /\ cache = NoFile
    /\ cache' = Directory
    /\ lastLive' = NoLive
    /\ EnvStep
    /\ UNCHANGED <<git_installed, initialized, history, lightweight, dirty, fault>>

\* get_version() called in the top directory of the source tree.
Returns(op, dir, r) ==
    /\ result' = [op |-> op, dir |-> dir, outcome |-> r.call.outcome, live |-> r.live,
                  wrote |-> r.call.wrote]
    /\ cache' = r.call.cache
    /\ lastLive' = IF op = "get_version" /\ r.live.kind = "value"
                   THEN [valid |-> TRUE, value |-> r.live.value]
                   ELSE lastLive

GetVersion ==
    /\ Returns("get_version", "top", get_version(cache, Env))
    /\ UNCHANGED <<git_installed, initialized, history, lightweight, dirty, fault, stub>>

\* get_git_version() called alone, from the top directory or a subdirectory:
\* it neither reads nor writes the cache file.
Alone(c, g) == [call |-> [outcome |-> g, cache |-> c, wrote |-> FALSE], live |-> g]

GetGitVersion(dir) ==
    /\ Returns("get_git_version", dir, Alone(cache, get_git_version(Env)))
    /\ UNCHANGED <<git_installed, initialized, history, lightweight, dirty, fault, stub>>

Next ==
    \/ GitInit
    \/ \E tag \in Tags \cup {NoTag} : MakeCommit(tag)
    \/ \E tag \in Tags : MakeTag(tag)
    \/ MakeLightweightTag
    \/ Touch
    \/ ExportSdist
    \/ GitUninstall
    \/ GitInstall
    \/ \E f \in Faults : Break(f)
    \/ Repair
    \/ \E content \in ExternalContents : WriteCacheFile(content)
    \/ RemoveCacheFile
    \/ MkdirCache
    \/ GetVersion
    \/ \E dir \in Dirs : GetGitVersion(dir)

Spec == Init /\ [][Next]_vars

(***************************************************************************)
(* The parser alone: git_cmd names a stand-in that prints a chosen          *)
(* description, so that get_git_version is applied to every text of a       *)
(* bounded set, the ones no repository of the model yields among them.      *)
(***************************************************************************)
\* Releases RELEASE_VERSION_re accepts.
ValidReleases ==
    {<<"1", ".", "0">>, <<"1", "3">>, <<"2", ".", "1", ".", "2">>,
     <<"1", ".", "0", "r", "c", "1">>, <<"0", "a", "1">>}

\* Tag names that are no numeric PEP440 release.
InvalidReleases ==
    {<<"v", "1">>, <<"1", ".">>, << >>, <<"1", ".", "0", "r", "c">>,
     <<"1", ".", "0", "-", "r", "c", "1">>}

\* Commits since the tag: left out (-1), zero, one digit, two digits.
StubPosts == {-1, 0, 1, 9, 10, MaxStubPost}

StubHash == <<"a", "b", "1">>

\* The description git prints for a release, a count and a dirty marker.
Describe(release, post, isDirty) ==
    release
    \o (IF post >= 0 THEN <<"-">> \o IntToStr(post) \o <<"-", "g">> \o StubHash ELSE << >>)
    \o (IF isDirty THEN <<"-", "d", "i", "r", "t", "y">> ELSE << >>)
    \o <<"\n">>

\* Output that is no single line: GIT_DESCRIPION_re does not match it.
UnparsableTexts == {<<"1", ".", "0", "\n", "2", ".", "0", "\n">>}

Stubs ==
    {[on |-> TRUE, shaped |-> TRUE, release |-> r, post |-> p, dirty |-> d,
      text |-> Describe(r, p, d)] :
        r \in ValidReleases \cup InvalidReleases, p \in StubPosts, d \in BOOLEAN}
    \cup {[on |-> TRUE, shaped |-> FALSE, release |-> << >>, post |-> -1,
           dirty |-> FALSE, text |-> t] : t \in UnparsableTexts}

InitParse ==
    /\ git_installed = TRUE
    /\ initialized = FALSE
    /\ history = << >>
    /\ lightweight = FALSE
    /\ dirty = FALSE
    /\ fault = "none"
    /\ stub \in Stubs
    /\ cache = NoFile
    /\ result = NoCall
    /\ lastLive = NoLive

NextParse ==
    \/ \E content \in ExternalContents : WriteCacheFile(content)
    \/ RemoveCacheFile
    \/ GetVersion
    \/ \E dir \in Dirs : GetGitVersion(dir)

SpecParse == InitParse /\ [][NextParse]_vars

(***************************************************************************)
(* The claims. A step is a get_version() call when it leaves                *)
(* result.op = "get_version": the unprimed variables are the state the call *)
(* was made in, the primed ones the state it left.                          *)
(***************************************************************************)
V42 == <<"4", "2">>
V10 == <<"1", ".", "0">>

\* No live version is to be had: git is not found, or this is no repository.
GitUnavailable == ~stub.on /\ (~git_installed \/ ~initialized)

\* C1: when the live query yields no version (git is not found, or the
\* directory is in no repository) and RELEASE-VERSION holds a version v,
\* get_version() returns v, raises nothing and leaves the file as it was.
C1_FallsBackToCache ==
    [][(/\ result'.op = "get_version"
        /\ GitUnavailable
        /\ cache.state = "file"
        /\ Strip(cache.content) # << >>)
       => (/\ result'.outcome = Value(Strip(cache.content))
           /\ result'.live.kind = "None"
           /\ ~result'.wrote
           /\ cache' = cache)]_vars

\* A call made without git returned the 42 of a cache file holding " 42 ".
C1_Witness ==
    /\ result.op = "get_version"
    /\ ~git_installed
    /\ cache = File(<<" ", "4", "2", " ", "\n">>)
    /\ result.outcome = Value(V42)

\* The cache file holds no version: it is absent, empty or whitespace only.
NoCachedVersion(c) == c.state = "absent" \/ (c.state = "file" /\ Strip(c.content) = << >>)

\* C2: when the live query yields no version and the cache file is absent or
\* holds no version string (empty, or whitespace only), get_version() raises
\* RuntimeError: it returns nothing and does not create or write the file.
C2_FailsWithoutAnySource ==
    [][(/\ result'.op = "get_version"
        /\ GitUnavailable
        /\ NoCachedVersion(cache))
       => (/\ result'.outcome.kind = "RuntimeError"
           /\ ~result'.wrote
           /\ cache' = cache)]_vars

\* C3: get_version() writes the cache file only when a live version was
\* computed and differs from the stripped version the file held; otherwise the
\* file is left as it was. So a call that follows a call that returned, with
\* nothing changed in between, returns the same value and writes nothing.
C3_WritesOnlyWhenChanged ==
    [][result'.op = "get_version"
       => (/\ result'.wrote
              => (/\ result'.live.kind = "value"
                  /\ get_cached_version(cache) # result'.live
                  /\ cache' = File(result'.live.value \o <<"\n">>))
           /\ ~result'.wrote => cache' = cache
           /\ (/\ result'.live.kind = "value"
               /\ get_cached_version(cache) = result'.live) => ~result'.wrote
           /\ result'.live.kind # "value" => ~result'.wrote
           /\ (result.op = "get_version" /\ result.outcome.kind = "value")
              => (result'.outcome = result.outcome /\ ~result'.wrote))]_vars

\* A call computed the live version 1.0, found it in the cache and wrote nothing.
C3_Witness ==
    /\ result.op = "get_version"
    /\ result.live = Value(V10)
    /\ result.outcome = Value(V10)
    /\ ~result.wrote
    /\ cache = File(V10 \o <<"\n">>)

\* C4: every get_version() call that returns v leaves a cache from which
\* get_cached_version() gives exactly v; and a call made when no live version
\* is to be had returns the version the last live query computed.
C4_CacheHoldsReturnedVersion ==
    /\ (result.op = "get_version" /\ result.outcome.kind = "value")
       => get_cached_version(cache) = result.outcome
    /\ (result.op = "get_version" /\ result.live.kind = "None" /\ lastLive.valid)
       => result.outcome = Value(lastLive.value)

\* With git gone, a call returned a version a live query had computed with one
\* commit past the tag.
C4_Witness ==
    /\ result.op = "get_version"
    /\ ~git_installed
    /\ result.live.kind = "None"
    /\ lastLive.valid
    /\ lastLive.value = V10 \o DotPost \o <<"1">>
    /\ result.outcome = Value(lastLive.value)

\* The version the parsing rule gives a description of a release, a count of
\* commits (-1: none given) and a dirty marker; a count of zero is written
\* out, as .post0, when withZero holds.
Expected(release, post, isDirty, withZero) ==
    IF isDirty
    THEN release \o DotPost \o IntToStr((IF post < 0 THEN 0 ELSE post) + 1) \o DotDev \o <<"0">>
    ELSE IF post > 0 \/ (withZero /\ post = 0) THEN release \o DotPost \o IntToStr(post)
    ELSE release

\* The call made last parsed a description of the shape
\* <release>(-<post>-g<hash>)?(-dirty)? with a valid release.
ParsedShaped ==
    /\ result.op # "none"
    /\ cache.state # "dir"
    /\ stub.on /\ stub.shaped
    /\ stub.release \in ValidReleases

\* C5, as stated: for every such description get_git_version() returns
\* <release>.post<post+1>.dev0 if it is dirty, else <release>.post<post> if a
\* count is present, the count 0 included, else <release>.
C5_AsStated ==
    ParsedShaped => result.live = Value(Expected(stub.release, stub.post, stub.dirty, TRUE))

\* C5, amended: for every such description get_git_version() returns
\* <release>.post<post+1>.dev0 if it is dirty, else <release>.post<post> if a
\* count is present and is not zero, else (no count, or a count of 0) <release>.
C5_ParsesDescription ==
    ParsedShaped => result.live = Value(Expected(stub.release, stub.post, stub.dirty, FALSE))

\* The description 1.0-0-gab1 was parsed, and gave 1.0.
C5_Witness ==
    /\ ParsedShaped
    /\ stub.release = V10 /\ stub.post = 0 /\ ~stub.dirty
    /\ result.live = Value(V10)

C7_OtherFailuresRaise ==
    (/\ result.op # "none"
     /\ cache.state # "dir"
     /\ ~stub.on /\ git_installed /\ initialized
     /\ \/ fault \in {"corrupt_index", "bad_head", "describe_killed"}
           /\ LastTagged(history) > 0
        \/ fault = "revlist_killed" /\ LastTagged(history) = 0 /\ Len(history) > 0)
    => (/\ result.outcome.kind = "GitFailed"
        /\ result.outcome.returncode # 0
        /\ ~result.wrote)

\* The call made last was given a description that cannot be parsed, or whose
\* release is no numeric PEP440 release.
BadDescription ==
    stub.on /\ (~stub.shaped \/ stub.release \in InvalidReleases)

\* C8: when describe's output cannot be parsed or its release is no numeric
\* PEP440 release, get_git_version() raises GitError; get_version() raises it
\* too, does not fall back on the cached version, and leaves the cache file
\* as it was.
C8_BadDescriptionIsFatal ==
    [][(result'.op # "none" /\ BadDescription)
       => (/\ result'.live.kind = "GitError"
           /\ result'.outcome.kind = "GitError"
           /\ ~result'.wrote
           /\ cache' = cache)]_vars

\* get_version() raised GitError for the tag v1 with a version in the cache.
C8_Witness ==
    /\ result.op = "get_version"
    /\ stub.on /\ stub.release = <<"v", "1">>
    /\ cache = File(V42 \o <<"\n">>)
    /\ result.outcome.kind = "GitError"

\* C9: get_git_version() returns None when it is run from a subdirectory of
\* an initialized work tree.
C9_NoneFromSubdirectory ==
    (/\ result.op = "get_git_version"
     /\ result.dir = "subdir"
     /\ ~stub.on /\ git_installed /\ initialized /\ fault = "none")
    => result.outcome.kind = "None"

\* v from position p on is nothing, .post<N> or .post<N>.dev0.
PostSuffix(v, p) ==
    \/ p = Len(v) + 1
    \/ /\ p + 4 <= Len(v)
       /\ SubSeq(v, p, p + 4) = DotPost
       /\ Run(v, p + 5, Digits) >= 1
       /\ LET q == p + 5 + Run(v, p + 5, Digits)
          IN  q = Len(v) + 1 \/ SubSeq(v, q, Len(v)) = DotDev \o <<"0">>

\* v is <release>[.postN[.dev0]] for a numeric PEP440 release.
HasReleaseForm(v) ==
    \E i \in 1..Len(v) : RELEASE_VERSION_re(SubSeq(v, 1, i)) /\ PostSuffix(v, i + 1)

\* v is 0.dev<k>.
HasDevForm(v) ==
    /\ Len(v) >= 6
    /\ SubSeq(v, 1, 5) = <<"0">> \o DotDev
    /\ Run(v, 6, Digits) = Len(v) - 5

\* C10, as stated: every version get_git_version() returns, whatever the
\* repository, is <release>[.postN[.dev0]] for a numeric PEP440 release, and
\* so is every version get_version() writes to the cache file.
C10_AsStated ==
    /\ result.live.kind = "value" => HasReleaseForm(result.live.value)
    /\ result.wrote => HasReleaseForm(Strip(cache.content))

\* C10, amended: every version get_git_version() returns is either
\* <release>[.postN[.dev0]] for a numeric PEP440 release or 0.dev<k> for a
\* number k; and so is every version get_version() writes to the cache file.
C10_VersionForm ==
    /\ result.live.kind = "value"
       => (HasReleaseForm(result.live.value) \/ HasDevForm(result.live.value))
    /\ result.wrote
       => (/\ cache.state = "file"
           /\ HasReleaseForm(Strip(cache.content)) \/ HasDevForm(Strip(cache.content)))

\* A dirty tree one commit past the tag 1.0: 1.0.post2.dev0, written to the cache.
C10_Witness ==
    /\ result.op = "get_version"
    /\ result.wrote
    /\ result.live = Value(V10 \o DotPost \o <<"2">> \o DotDev \o <<"0">>)
    /\ cache = File(result.live.value \o <<"\n">>)

====
